---- MODULE Spec2Model ----
(***************************************************************************)
(* A model of TorchProfiling's log parser (module_logging/analysis_gpu_log *)
(* .py, parse_one_log) and of its instrumentation layer (module_logging/   *)
(* trace.py, class Tracer).                                                *)
(*                                                                         *)
(* Text.  A log line is a sequence of tokens.  The separators the code     *)
(* splits on (":" and " ") and the line terminator "\n" are tokens of      *)
(* their own, every other token is a piece of text without separators.     *)
(* startswith, "in", split(..)[-1], rstrip("\n") and float() are computed  *)
(* on the tokens as Python computes them on the characters.                *)
(*                                                                         *)
(* Numbers.  Durations are floats in the source.  The model keeps them in  *)
(* tenths ("1.5" is 15) and adds them as integers: rounding of float       *)
(* addition is outside the model.                                          *)
(***************************************************************************)
EXTENDS Integers, Sequences, FiniteSets, TLC

VARIABLES
    \* ---- parse_one_log ---------------------------------------------------
    line,                          \* the loop variable: the line being processed
    nread,                         \* number of lines the for loop has taken
    pc,                            \* "loop" | "returned" | "raised"
    error,                         \* the exception raised ("" when none)
    iteration_begin,
    collecting,
    op_name,
    total_kernel_consumed,
    total_time_dict,
    total_iteration_time,
    module_list,
    module_total_kernel_consumed,
    table_data,
    table, table2, table3,         \* the three returned views (<<>> until returned)
    \* ---- Tracer and its collaborators -------------------------------------
    rank,                          \* os.getenv("RANK", "0")
    self,                          \* the Tracer's fields
    Hook,                          \* the state of the Hook extension module
    hooks,                         \* the hooks registered on the modules, in order
    session,                       \* "entered" | "exited" ("none": no Tracer)
    call_stack,                    \* the module calls the runtime has in progress
    op_calls,                      \* the calls the last __torch_dispatch__ made to
                                   \* the original operation, and what each did
    events,                        \* what happened during the last top-level
                                   \* __torch_dispatch__, in order: the calls to
                                   \* Hook and the calls of operations
    dispatch_in,                   \* what the last __torch_dispatch__ was given
    dispatch_out,                  \* what it gave back: a value or an exception
    nevents,                       \* runtime events so far
    \* ---- Tracer.get_named_modules, run on its own (SpecWalk) ----------------
    module_tree,                   \* named_children() of every module: a sequence
                                   \* of <<name, module>>
    stack,
    acc_index,
    wpc,                           \* "idle" | "walking" | "returned"
    \* ---- history variables (not program state) -----------------------------
    lines,                         \* the lines read so far (kept by SpecScenario)
    hist                           \* what the trace contained, see HistAfter

parserVars == <<line, nread, pc, error, iteration_begin, collecting, op_name,
                total_kernel_consumed, total_time_dict, total_iteration_time,
                module_list, module_total_kernel_consumed, table_data,
                table, table2, table3>>

walkVars == <<module_tree, stack, acc_index, wpc>>

tracerVars == <<rank, self, Hook, hooks, session, call_stack, op_calls, events,
                dispatch_in, dispatch_out, nevents, walkVars>>

vars == <<parserVars, tracerVars, lines, hist>>

----------------------------------------------------------------------------
(* Bounds *)

MaxLines == 8

MaxScenarioLines == 5

MaxEvents == 3

MaxModules == 4

----------------------------------------------------------------------------
(* Text *)

NL == "\n"

\* str.startswith
StartsWith(s, prefix) ==
    /\ Len(s) >= Len(prefix)
    /\ SubSeq(s, 1, Len(prefix)) = prefix

\* "sub in s" for strings
Contains(s, sub) ==
    \E i \in 0..(Len(s) - Len(sub)) : SubSeq(s, i + 1, i + Len(sub)) = sub

\* str.rstrip("\n")
RECURSIVE RStripNL(_)
RStripNL(s) ==
    IF s # <<>> /\ s[Len(s)] = NL THEN RStripNL(SubSeq(s, 1, Len(s) - 1)) ELSE s

\* str.split(sep)[-1]: what follows the last sep, the whole string when none
RECURSIVE SplitLast(_, _)
SplitLast(s, sep) ==
    IF s = <<>> THEN <<>>
    ELSE IF s[Len(s)] = sep THEN <<>>
    ELSE SplitLast(SubSeq(s, 1, Len(s) - 1), sep) \o <<s[Len(s)]>>

\* the numerals of the logs, in tenths
FloatValue == ("1.5" :> 15) @@ ("2.0" :> 20) @@ ("3.0" :> 30)

\* float(s): surrounding whitespace is dropped; -1 stands for ValueError
ParseFloat(s) ==
    LET t == RStripNL(s)
    IN  IF Len(t) = 1 /\ t[1] \in DOMAIN FloatValue THEN FloatValue[t[1]] ELSE -1

----------------------------------------------------------------------------
(* The lines of a log *)

MarkerLine    == <<"iteration", " ", "learning", " ", "loss", NL>>
IterLearnLine == <<"iter", " ", "learn", " ", "loss", NL>>

TaggedLine(tag, name) == <<tag, ":", " ">> \o name \o <<NL>>

BeginForwardLine(name)   == TaggedLine("[BEGIN FORWARD]", name)
EndForwardLine(name)     == TaggedLine("[END FORWARD]", name)
BegineBackwardLine(name) == TaggedLine("[BEGINE BACKWARD]", name)
EndBackwardLine(name)    == TaggedLine("[END BACKWARD]", name)
StartSymbolLine(name)    == TaggedLine("[START_SYMBOL]", name)
EndSymbolLine(name)      == TaggedLine("[END_SYMBOL]", name)
DurationLine(num)        == <<"DURATION", ":", " ", num, NL>>

\* The input lines of Spec: two module names of which one is also written
\* with a prefix holding a colon, two operation names of which one is part
\* of the other, two durations, the marker and a line the parser ignores.
Lines ==
    { MarkerLine, IterLearnLine,
      BeginForwardLine(<<"m">>), EndForwardLine(<<"m">>),
      EndForwardLine(<<"x", ":", "m">>),
      BegineBackwardLine(<<"n">>), EndBackwardLine(<<"n">>),
      StartSymbolLine(<<"a">>), StartSymbolLine(<<"a", "b">>),
      EndSymbolLine(<<"a">>), EndSymbolLine(<<"a", "b">>),
      DurationLine("2.0"), DurationLine("3.0") }

\* The input lines of SpecScenario: the lines of the documented scenarios.
ScenarioLines ==
    { MarkerLine, IterLearnLine,
      BeginForwardLine(<<"net">>), EndForwardLine(<<"net">>),
      EndForwardLine(<<"other">>),
      StartSymbolLine(<<"add">>), EndSymbolLine(<<"add">>),
      DurationLine("1.5"), DurationLine("2.0"), DurationLine("3.0") }

----------------------------------------------------------------------------
(* parse_one_log: the tests of the loop body *)

\* Variant: any line with "loss" in it is taken for the marker.
IsIterationMarker_LossOnly(l) == Contains(l, <<"loss">>)

\* Variant: one of the three words is enough.
IsIterationMarker_AnyOf(l) ==
    \/ Contains(l, <<"iteration">>)
    \/ Contains(l, <<"learning">>)
    \/ Contains(l, <<"loss">>)

\* "iteration" in line and "learning" in line and "loss" in line
IsIterationMarker(l) ==
    /\ Contains(l, <<"iteration">>)
    /\ Contains(l, <<"learning">>)
    /\ Contains(l, <<"loss">>)

IsModuleBegin(l) ==
    \/ StartsWith(l, <<"[BEGIN FORWARD]", ":">>)
    \/ StartsWith(l, <<"[BEGINE BACKWARD]">>)

IsModuleEnd(l) ==
    \/ StartsWith(l, <<"[END FORWARD]", ":">>)
    \/ StartsWith(l, <<"[END BACKWARD]">>)

IsStartSymbol(l) == StartsWith(l, <<"[START_SYMBOL]", ":">>)

IsEndSymbol(l) == StartsWith(l, <<"[END_SYMBOL]", ":">>)

IsDuration(l) == StartsWith(l, <<"DURATION", ":">>)

\* line.rstrip("\n").split(":")[-1]
NameOf(l) == SplitLast(RStripNL(l), ":")

\* float(line.split(" ")[-1])
TimeOf(l) == ParseFloat(SplitLast(l, " "))

----------------------------------------------------------------------------
(* parse_one_log: rows and tables.  A cell is a sequence: "" is <<>>, a     *)
(* number t is <<t>>, a name is its tokens.                                 *)

Blank == <<>>

Front(s) == SubSeq(s, 1, Len(s) - 1)

Num(t) == <<t>>

ModuleRow(t) ==
    [Module |-> Blank, Name |-> Blank, TotalTime |-> Blank, ModuleTotalTime |-> Num(t)]

LeafRow(m, n, t) ==
    [Module |-> m, Name |-> n, TotalTime |-> Num(t), ModuleTotalTime |-> Blank]

\* Variant: a BEGIN line always flushes, as an END line does.
FlushOnBegin_Always(ml, mt) == TRUE

\* if len(module_list) > 0 and module_total_kernel_consumed > 0
FlushOnBegin(ml, mt) == Len(ml) > 0 /\ mt > 0

\* Variant: the END line's name is not compared.
EndNameMatches_Always(name, ml) == TRUE

\* if module_name == module_list[-1]   (IndexError on an empty list)
EndNameMatches(name, ml) == ml # <<>> /\ name = ml[Len(ml)]

\* Variant: the frame is left on the list.
PopModule_Keep(ml) == ml

\* module_list.pop()
PopModule(ml) == Front(ml)

\* Variant: the lines outside an operation are not skipped.
NotCollecting_Never(c) == FALSE

\* if not collecting: ... continue
NotCollecting(c) == ~c

\* Variant: the commented-out test, end_name != op_name.
EndSymbolMatches_Equal(op, end_name) == op = end_name

\* if not op_name in end_name: raise
EndSymbolMatches(op, end_name) == Contains(end_name, op)

\* Variant: a leaf row never names a module.
TopModule_Blank(ml) == Blank

\* module_name = "", or module_list[-1] when module_list is not empty
TopModule(ml) == IF Len(ml) > 0 THEN ml[Len(ml)] ELSE Blank

\* Variant: a repeated operation keeps its first entry.
AddToDict_First(d, op, t) == IF op \in DOMAIN d THEN d ELSE d @@ (op :> t)

\* Variant: a repeated operation replaces its entry.
AddToDict_Overwrite(d, op, t) == (op :> t) @@ d

\* total_time_dict[op_name] += total_kernel_consumed, or the first entry
AddToDict(d, op, t) ==
    IF op \in DOMAIN d THEN [d EXCEPT ![op] = @ + t] ELSE d @@ (op :> t)

\* Variant: the operation's running total is added, as for the module total.
IterationTimeAfter_Running(tit, time, tkc) == tit + (tkc + time)

\* total_iteration_time += time
IterationTimeAfter(tit, time, tkc) == tit + time

\* module_total_kernel_consumed += total_kernel_consumed (after its own += time)
ModuleTimeAfter(mt, time, tkc) == mt + (tkc + time)

\* table: one row per entry of table_data, in order
BuildTable(td) ==
    [i \in 1..Len(td) |->
        <<td[i].Module, td[i].Name, td[i].TotalTime, td[i].ModuleTotalTime>>]

\* table2: created with its header; the rows are never added
BuildTable2(d, tit) == <<>>

\* table3: the one row [total_iteration_time]
BuildTable3(tit) == << <<Num(tit)>> >>

----------------------------------------------------------------------------
(* History: what the lines read inside the window contained, counted       *)
(* without the parser's bookkeeping.                                       *)
(*   durAll   sum of the values of all DURATION lines                      *)
(*   durOpen  sum of the values of the DURATION lines read with an         *)
(*            operation open                                               *)
(*   nBegin, nEnd   module BEGIN and END lines processed                   *)
(*   open     the names of the BEGIN lines not yet closed, oldest first    *)
(*   popped   for each END line processed, the pair of the name of the     *)
(*            youngest BEGIN line not yet closed and the END line's name   *)
(*   cur      the open operation as <<name, sum of its samples>>, or <<>>  *)
(*   occ      the closed operations, in order, as <<name, sum, name of     *)
(*            the youngest BEGIN line not yet closed (<<>> when none)>>    *)
(*   since    sum of the samples read with an operation open since the     *)
(*            last module BEGIN or END line                                *)
(*   nFlush   module BEGIN lines read with a BEGIN line not yet closed     *)
(*            and since > 0                                                *)
(*   rows     the rows the lines call for, in the order of the lines: a    *)
(*            module row holding since for each module END line and each   *)
(*            BEGIN line counted in nFlush, a leaf row for each closed     *)
(*            operation                                                    *)

HistInit ==
    [durAll |-> 0, durOpen |-> 0, nBegin |-> 0, nEnd |-> 0,
     open |-> <<>>, popped |-> {}, cur |-> <<>>, occ |-> <<>>,
     since |-> 0, nFlush |-> 0, rows |-> <<>>]

Last(s) == IF s = <<>> THEN <<>> ELSE s[Len(s)]

\* The history after line l is read in the window and processed without error.
HistAfter(h, l) ==
    LET v     == IF IsDuration(l) THEN TimeOf(l) ELSE 0
        isOpen == h.cur # <<>>
        flush == IsModuleBegin(l) /\ h.open # <<>> /\ h.since > 0
        h1 == [h EXCEPT
                 !.durAll  = @ + v,
                 !.durOpen = IF isOpen THEN @ + v ELSE @,
                 !.nBegin  = IF IsModuleBegin(l) THEN @ + 1 ELSE @,
                 !.nEnd    = IF IsModuleEnd(l) THEN @ + 1 ELSE @,
                 !.open    = IF IsModuleBegin(l) THEN Append(@, NameOf(l))
                             ELSE IF IsModuleEnd(l) THEN Front(@) ELSE @,
                 !.popped  = IF IsModuleEnd(l)
                             THEN @ \cup { <<Last(h.open), NameOf(l)>> } ELSE @,
                 !.since   = IF IsModuleBegin(l) \/ IsModuleEnd(l) THEN 0 ELSE @,
                 !.nFlush  = IF flush THEN @ + 1 ELSE @,
                 !.rows    = IF flush \/ IsModuleEnd(l)
                             THEN Append(@, ModuleRow(h.since)) ELSE @]
    IN  IF ~isOpen
        THEN IF IsStartSymbol(l) THEN [h1 EXCEPT !.cur = <<NameOf(l), 0>>] ELSE h1
        ELSE IF IsEndSymbol(l)
             THEN [h1 EXCEPT !.cur = <<>>,
                             !.occ = Append(@, h.cur \o <<Last(h1.open)>>),
                             !.rows = Append(@, LeafRow(Last(h1.open), h.cur[1],
                                                        h.cur[2]))]
             ELSE [h1 EXCEPT !.cur = <<h.cur[1], h.cur[2] + v>>,
                             !.since = @ + v]

----------------------------------------------------------------------------
(* parse_one_log *)

InitParser ==
    /\ line = <<>>
    /\ nread = 0
    /\ pc = "loop"
    /\ error = ""
    /\ iteration_begin = FALSE
    /\ collecting = FALSE
    /\ op_name = <<>>
    /\ total_kernel_consumed = 0
    /\ total_time_dict = <<>>
    /\ total_iteration_time = 0
    /\ module_list = <<>>
    /\ module_total_kernel_consumed = 0
    /\ table_data = <<>>
    /\ table = <<>>
    /\ table2 = <<>>
    /\ table3 = <<>>
    /\ hist = HistInit

\* The code after the loop: the three tables are built and returned.
ReturnTables ==
    /\ pc' = "returned"
    /\ table' = BuildTable(table_data)
    /\ table2' = BuildTable2(total_time_dict, total_iteration_time)
    /\ table3' = BuildTable3(total_iteration_time)

Raise(e) ==
    /\ pc' = "raised"
    /\ error' = e
    /\ UNCHANGED <<table, table2, table3>>

\* One pass of the loop body over line l, inside the window.
InWindow(l) ==
    LET isBegin == IsModuleBegin(l)
        isEnd   == IsModuleEnd(l)
        td1 == IF isBegin /\ FlushOnBegin(module_list, module_total_kernel_consumed)
               THEN Append(table_data, ModuleRow(module_total_kernel_consumed))
               ELSE table_data
        ml1 == IF isBegin THEN Append(module_list, NameOf(l)) ELSE module_list
        mt1 == IF isBegin THEN 0 ELSE module_total_kernel_consumed
        td2 == IF isEnd THEN Append(td1, ModuleRow(mt1)) ELSE td1
        mt2 == IF isEnd THEN 0 ELSE mt1
        endOk == EndNameMatches(NameOf(l), ml1)
        ml2 == IF isEnd THEN PopModule(ml1) ELSE ml1
        time == TimeOf(l)
    IN
    IF isEnd /\ ~endOk
    THEN \* raise Exception("not find the module name in module list"),
         \* or IndexError from module_list[-1]
         /\ Raise(IF ml1 = <<>> THEN "IndexError" ELSE "not find the module name")
         /\ table_data' = td2
         /\ module_total_kernel_consumed' = mt2
         /\ module_list' = ml1
         /\ UNCHANGED <<collecting, op_name, total_kernel_consumed,
                        total_time_dict, total_iteration_time, hist>>
    ELSE IF NotCollecting(collecting)
    THEN /\ collecting' = IsStartSymbol(l)
         /\ op_name' = IF IsStartSymbol(l) THEN NameOf(l) ELSE op_name
         /\ table_data' = td2
         /\ module_total_kernel_consumed' = mt2
         /\ module_list' = ml2
         /\ hist' = HistAfter(hist, l)
         /\ UNCHANGED <<pc, error, table, table2, table3, total_kernel_consumed,
                        total_time_dict, total_iteration_time>>
    ELSE IF IsEndSymbol(l)
    THEN IF ~EndSymbolMatches(op_name, NameOf(l))
         THEN /\ Raise("end symbol name is not equal to start symbol name")
              /\ table_data' = td2
              /\ module_total_kernel_consumed' = mt2
              /\ module_list' = ml2
              /\ UNCHANGED <<collecting, op_name, total_kernel_consumed,
                             total_time_dict, total_iteration_time, hist>>
         ELSE /\ table_data' =
                    Append(td2, LeafRow(TopModule(ml2), op_name, total_kernel_consumed))
              /\ total_time_dict' =
                    AddToDict(total_time_dict, op_name, total_kernel_consumed)
              /\ op_name' = <<>>
              /\ total_kernel_consumed' = 0
              /\ collecting' = FALSE
              /\ module_total_kernel_consumed' = mt2
              /\ module_list' = ml2
              /\ hist' = HistAfter(hist, l)
              /\ UNCHANGED <<pc, error, table, table2, table3, total_iteration_time>>
    ELSE IF IsDuration(l)
    THEN IF time < 0
         THEN /\ Raise("ValueError")
              /\ table_data' = td2
              /\ module_total_kernel_consumed' = mt2
              /\ module_list' = ml2
              /\ UNCHANGED <<collecting, op_name, total_kernel_consumed,
                             total_time_dict, total_iteration_time, hist>>
         ELSE /\ total_kernel_consumed' = total_kernel_consumed + time
              /\ total_iteration_time' =
                    IterationTimeAfter(total_iteration_time, time, total_kernel_consumed)
              /\ module_total_kernel_consumed' =
                    ModuleTimeAfter(mt2, time, total_kernel_consumed)
              /\ table_data' = td2
              /\ module_list' = ml2
              /\ hist' = HistAfter(hist, l)
              /\ UNCHANGED <<pc, error, table, table2, table3, collecting, op_name,
                             total_time_dict>>
    ELSE /\ table_data' = td2
         /\ module_total_kernel_consumed' = mt2
         /\ module_list' = ml2
         /\ hist' = HistAfter(hist, l)
         /\ UNCHANGED <<pc, error, table, table2, table3, collecting, op_name,
                        total_kernel_consumed, total_time_dict, total_iteration_time>>

\* for line in lines: one pass of the loop with the next line of the file.
Feed(l) ==
    /\ pc = "loop"
    /\ line' = l
    /\ nread' = nread + 1
    /\ IF ~iteration_begin
       THEN \* before the window: only the marker counts
            /\ iteration_begin' = IsIterationMarker(l)
            /\ UNCHANGED <<pc, error, collecting, op_name, total_kernel_consumed,
                           total_time_dict, total_iteration_time, module_list,
                           module_total_kernel_consumed, table_data,
                           table, table2, table3, hist>>
       ELSE IF IsIterationMarker(l)
       THEN \* the closing marker: break, then the code after the loop
            /\ ReturnTables
            /\ UNCHANGED <<error, iteration_begin, collecting, op_name,
                           total_kernel_consumed, total_time_dict,
                           total_iteration_time, module_list,
                           module_total_kernel_consumed, table_data, hist>>
       ELSE /\ InWindow(l)
            /\ UNCHANGED iteration_begin

\* The file has no more lines: the loop ends and the code after it runs.
EndOfInput ==
    /\ pc = "loop"
    /\ ReturnTables
    /\ UNCHANGED <<line, nread, error, iteration_begin, collecting, op_name,
                   total_kernel_consumed, total_time_dict, total_iteration_time,
                   module_list, module_total_kernel_consumed, table_data, hist>>

----------------------------------------------------------------------------
(* The Hook extension module (C++, process-wide): recorder and timer.      *)
(* A recorded log string becomes one line of the log file.                 *)

HookFresh ==
    [installed |-> FALSE, recorder |-> FALSE, profiling |-> FALSE,
     log_path |-> <<>>, timer_path |-> <<>>,
     log |-> <<>>, times |-> <<>>, written |-> FALSE]

HookInstallHook(h) == [h EXCEPT !.installed = TRUE]

HookEnableRecorder(h) == [h EXCEPT !.recorder = TRUE]

HookSetLogRecordPath(h, p) == [h EXCEPT !.log_path = p]

HookEnableProfiling(h) == [h EXCEPT !.profiling = TRUE]

HookSetTimerRecordPath(h, p) == [h EXCEPT !.timer_path = p]

\* record_log: a line of the log, when the recorder is enabled
HookRecordLog(h, s) ==
    IF h.recorder THEN [h EXCEPT !.log = Append(@, s \o <<NL>>)] ELSE h

\* record_time: a timing delimiter, when timing is enabled
HookRecordTime(h, ph, name, scope) ==
    IF h.profiling THEN [h EXCEPT !.times = Append(@, <<ph, name, scope>>)] ELSE h

HookWriteToFile(h) == [h EXCEPT !.written = TRUE]

HookCloseRecorder(h) == [h EXCEPT !.recorder = FALSE]

\* The Duration Source: with the hook installed, one DURATION line for each
\* kernel the operation runs.
RECURSIVE HookDurations(_, _)
HookDurations(h, durs) ==
    IF durs = <<>> \/ ~h.installed THEN h
    ELSE HookDurations(HookRecordLog(h, <<"DURATION", ":", " ", Head(durs)>>),
                       Tail(durs))

\* The training loop's own line, written to the same log.
TrainingLogLine(h) == [h EXCEPT !.log = Append(@, MarkerLine)]

----------------------------------------------------------------------------
(* The modules: a Net with one child, fc, a Linear.                        *)

ClassName == (1 :> "Net") @@ (2 :> "Linear")

NamedChildren == (1 :> << <<"fc", 2>> >>) @@ (2 :> <<>>)

Modules == DOMAIN NamedChildren

\* Variant: a child's name does not start with its parent's.
ChildPath_NoParent(f_name, name) == <<name>>

\* s_name = f_name + "#" + name
ChildPath(f_name, name) == f_name \o <<"#", name>>

\* the for loop over child_modules of one entry of the stack
RECURSIVE ChildEntries(_, _, _, _, _)
ChildEntries(children, i, f_name, l, counter) ==
    IF i > Len(children) THEN <<>>
    ELSE LET unnamed == children[i][1] = ""
             name == IF unnamed THEN ToString(counter) ELSE children[i][1]
         IN  << <<ChildPath(f_name, name), children[i][2], l + 1>> >>
             \o ChildEntries(children, i + 1, f_name, l,
                             IF unnamed THEN counter + 1 ELSE counter)

\* one pass of the while loop: the children of stack[acc_index] are appended
WalkIteration(tree, stk, index) ==
    LET e == stk[index + 1]
    IN  stk \o ChildEntries(tree[e[2]], 1, e[1], e[3], 0)

\* stack.append((m_name, module, level)) with m_name the class name or prefix
WalkSeed(module, prefix) ==
    << <<IF prefix = <<>> THEN <<ClassName[module]>> ELSE prefix, module, 0>> >>

\* while acc_index < len(stack)
RECURSIVE WalkStack(_, _)
WalkStack(stk, index) ==
    IF index >= Len(stk) THEN stk
    ELSE WalkStack(WalkIteration(NamedChildren, stk, index), index + 1)

GetNamedModules(module, prefix) == WalkStack(WalkSeed(module, prefix), 0)

----------------------------------------------------------------------------
(* Tracer *)

None == [kind |-> "None"]

\* int(rank)
IntOf(s) == IF s = "0" THEN 0 ELSE IF s = "1" THEN 1 ELSE 2

\* if self.ranks and rank and int(rank) not in self.ranks: return
RankExcluded(ranks, rk) == ranks # {} /\ rk # "" /\ IntOf(rk) \notin ranks

\* _register_hook
RegisterHook(hs, name, module, level, profiling_bw) ==
    hs \o << [kind |-> "forward_pre", module |-> module, name |-> name, level |-> level],
             [kind |-> "forward", module |-> module, name |-> name, level |-> level] >>
       \o IF profiling_bw
          THEN << [kind |-> "backward_pre", module |-> module, name |-> name, level |-> level],
                  [kind |-> "backward", module |-> module, name |-> name, level |-> level] >>
          ELSE <<>>

\* for name, m, l in m_tuple: self._register_hook(name, m, l)
RECURSIVE RegisterAll(_, _, _)
RegisterAll(hs, m_tuple, profiling_bw) ==
    IF m_tuple = <<>> THEN hs
    ELSE RegisterAll(RegisterHook(hs, Head(m_tuple)[1], Head(m_tuple)[2],
                                  Head(m_tuple)[3], profiling_bw),
                     Tail(m_tuple), profiling_bw)

\* for module in model: ...
RECURSIVE RegisterList(_, _, _)
RegisterList(hs, model, profiling_bw) ==
    IF model = <<>> THEN hs
    ELSE RegisterList(RegisterAll(hs, GetNamedModules(Head(model), <<>>), profiling_bw),
                      Tail(model), profiling_bw)

\* Variant: the rank test is missing.
InitReturnsEarly_Never(ranks, rk) == FALSE

\* __init__, up to the rank test: whether the rest is skipped
InitReturnsEarly(ranks, rk) == RankExcluded(ranks, rk)

\* __init__: the Hook module's state after it
InitHook(h, path, print_module_info, ranks, rk) ==
    IF InitReturnsEarly(ranks, rk) THEN h
    ELSE LET h1 == HookInstallHook(h)
             h2 == IF print_module_info
                   THEN HookSetLogRecordPath(HookEnableRecorder(h1),
                                             <<"/tmp/logs/", rk, ".log">>)
                   ELSE h1
             h3 == HookEnableProfiling(h2)
         IN  IF path = None
             THEN HookSetTimerRecordPath(h3, <<"/tmp/profiling.json">>)
             ELSE HookSetTimerRecordPath(h3, path.value)

\* __init__: the hooks registered on the modules
InitHooks(model, profiling_bw, ranks, rk) ==
    IF InitReturnsEarly(ranks, rk) THEN <<>>
    ELSE IF model = None THEN <<>>
    ELSE IF model.kind = "list" THEN RegisterList(<<>>, model.value, profiling_bw)
    ELSE IF model.kind = "Module"
         THEN RegisterAll(<<>>, GetNamedModules(model.value, <<>>), profiling_bw)
    ELSE <<>>

\* "Module L{}".format(level)
LevelName(level) == <<"Module L", ToString(level)>>

\* the strings the hooks record
PreForwardLog(name)   == <<"[BEGIN FORWARD]", ":", " ">> \o name
PostForwardLog(name)  == <<"[END FORWARD]", ":", " ">> \o name
PreBackwardLog(name)  == <<"[BEGIN BACKWARD]", ":", " ">> \o name \o <<"_backward">>
PostBackwardLog(name) == <<"[END BACKWARD]", ":", " ">> \o name \o <<"_backward">>

HookLog(hk) ==
    CASE hk.kind = "forward_pre"  -> PreForwardLog(hk.name)
      [] hk.kind = "forward"      -> PostForwardLog(hk.name)
      [] hk.kind = "backward_pre" -> PreBackwardLog(hk.name)
      [] hk.kind = "backward"     -> PostBackwardLog(hk.name)

HookPhase(hk) == IF hk.kind \in {"forward_pre", "backward_pre"} THEN "B" ELSE "E"

\* pre_forward_hook, post_forward_hook, pre_backward_hook, post_backward_hook
RunHook(h, hk, print_module_info) ==
    LET h1 == IF print_module_info THEN HookRecordLog(h, HookLog(hk)) ELSE h
    IN  HookRecordTime(h1, HookPhase(hk), hk.name, LevelName(hk.level))

\* The runtime runs the hooks of one kind registered on a module, in the
\* order of their registration.
RECURSIVE FireHooks(_, _, _, _, _)
FireHooks(h, hs, kind, module, print_module_info) ==
    IF hs = <<>> THEN h
    ELSE FireHooks(IF Head(hs).kind = kind /\ Head(hs).module = module
                   THEN RunHook(h, Head(hs), print_module_info) ELSE h,
                   Tail(hs), kind, module, print_module_info)

\* __torch_dispatch__: if kwargs is None: kwargs = {}
KwargsOf(kwargs) == IF kwargs = None THEN [kind |-> "dict", value |-> <<>>] ELSE kwargs

\* __torch_dispatch__: the calls it makes to the original operation
DispatchCalls(op, args, kwargs) ==
    << [op |-> op, args |-> args, kwargs |-> KwargsOf(kwargs)] >>

\* Variant: a failure of the operation is caught and None returned.
DispatchResult_Swallow(outcome) ==
    IF outcome.kind = "raise" THEN [kind |-> "return", value |-> "None"] ELSE outcome

\* __torch_dispatch__: what its caller gets, given what the operation did
DispatchResult(outcome) == outcome

\* __torch_dispatch__: whether the code after the call runs
RunsAfterCall(outcome) == outcome.kind = "return"

\* str(op), in the two log strings and the two timing delimiters
StartSymbolLog(op) == <<"[START_SYMBOL]", ":", " ", op>>
EndSymbolLog(op)   == <<"[END_SYMBOL]", ":", " ", op>>

\* What happens during __torch_dispatch__, one record for each call it
\* makes: to Hook.record_log (name is the string), to Hook.record_time, and
\* to the operation.
LogEvent(str) ==
    [fn |-> "record_log", phase |-> "", name |-> str, scope |-> <<>>]

TimeEvent(ph, name, scope) ==
    [fn |-> "record_time", phase |-> ph, name |-> name, scope |-> scope]

CallEvent(op) ==
    [fn |-> "op", phase |-> "", name |-> <<op>>, scope |-> <<>>]

\* __torch_dispatch__ up to and with the call of the operation
EventsBefore(op, print_module_info) ==
    (IF print_module_info THEN << LogEvent(StartSymbolLog(op)) >> ELSE <<>>)
    \o << TimeEvent("B", <<op>>, <<"aten op">>), CallEvent(op) >>

\* Variant: the END_SYMBOL string is recorded before the E delimiter.
EventsAfter_LogFirst(op, print_module_info) ==
    (IF print_module_info THEN << LogEvent(EndSymbolLog(op)) >> ELSE <<>>)
    \o << TimeEvent("E", <<op>>, <<"aten op">>) >>

\* __torch_dispatch__ after the operation has returned
EventsAfter(op, print_module_info) ==
    << TimeEvent("E", <<op>>, <<"aten op">>) >>
    \o (IF print_module_info THEN << LogEvent(EndSymbolLog(op)) >> ELSE <<>>)

\* The operations that the called operation dispatches while it runs come
\* to __torch_dispatch__ in their turn, each before the next, all before
\* the outer call returns (they run no kernel of their own and return).
RECURSIVE InnerEvents(_, _)
InnerEvents(inner, print_module_info) ==
    IF inner = <<>> THEN <<>>
    ELSE EventsBefore(Head(inner), print_module_info)
         \o EventsAfter(Head(inner), print_module_info)
         \o InnerEvents(Tail(inner), print_module_info)

\* __torch_dispatch__, from its first line to its return or to the
\* exception of the operation
DispatchEvents(op, inner, outcome, print_module_info) ==
    EventsBefore(op, print_module_info)
    \o InnerEvents(inner, print_module_info)
    \o (IF RunsAfterCall(outcome) THEN EventsAfter(op, print_module_info) ELSE <<>>)

\* the Hook module's state after the calls of evs, of which the first call
\* of an operation runs the kernels durs
RECURSIVE ApplyEvents(_, _, _)
ApplyEvents(h, evs, durs) ==
    IF evs = <<>> THEN h
    ELSE LET e == Head(evs)
         IN  CASE e.fn = "record_log"  ->
                      ApplyEvents(HookRecordLog(h, e.name), Tail(evs), durs)
               [] e.fn = "record_time" ->
                      ApplyEvents(HookRecordTime(h, e.phase, e.name, e.scope),
                                  Tail(evs), durs)
               [] e.fn = "op"          ->
                      ApplyEvents(HookDurations(h, durs), Tail(evs), <<>>)

\* __torch_dispatch__: the Hook module's state after it
DispatchHook(h, op, inner, outcome, durs, print_module_info) ==
    ApplyEvents(h, DispatchEvents(op, inner, outcome, print_module_info), durs)

\* __exit__
ExitHook(h) == HookCloseRecorder(HookWriteToFile(h))

----------------------------------------------------------------------------
(* A traced session: the runtime calls the modules and dispatches the      *)
(* operations while the Tracer is entered, then the session's log is       *)
(* parsed.                                                                 *)

Ranks == { {}, {0}, {1} }
RankEnv == { "0" }
ModelArgs == { None, [kind |-> "Module", value |-> 1],
               [kind |-> "list", value |-> <<2>>] }
Ops == { "aten.add" }
InnerOps == { <<>>, <<"aten.mul">> }
Outcomes == { [kind |-> "return", value |-> "tensor"],
              [kind |-> "raise", value |-> "RuntimeError"] }
KwargsArgs == { None, [kind |-> "dict", value |-> <<"alpha">>] }
KernelDurations == { <<>>, <<"2.0">> }

NoDispatch == [kind |-> "none", value |-> ""]

NoDispatchIn == [op |-> "", args |-> <<>>, kwargs |-> None]

\* get_named_modules is not running
WalkIdle ==
    /\ module_tree = NamedChildren
    /\ stack = <<>>
    /\ acc_index = 0
    /\ wpc = "idle"

\* no Tracer
NoSession ==
    /\ rank = "0"
    /\ self = [profiling_backward |-> FALSE, print_module_info |-> FALSE, ranks |-> {}]
    /\ Hook = HookFresh
    /\ hooks = <<>>
    /\ session = "none"
    /\ call_stack = <<>>
    /\ op_calls = <<>>
    /\ events = <<>>
    /\ dispatch_in = NoDispatchIn
    /\ dispatch_out = NoDispatch
    /\ nevents = 0

TracerIdle == NoSession /\ WalkIdle

\* with Tracer(model, path, profiling_bw, print_module_info, ranks):
InitTracer ==
    \E rk \in RankEnv, ranks \in Ranks, model \in ModelArgs,
       profiling_bw \in BOOLEAN, print_module_info \in BOOLEAN :
        /\ rank = rk
        /\ self = [profiling_backward |-> profiling_bw,
                   print_module_info |-> print_module_info, ranks |-> ranks]
        /\ Hook = InitHook(HookFresh, None, print_module_info, ranks, rk)
        /\ hooks = InitHooks(model, profiling_bw, ranks, rk)
        /\ session = "entered"
        /\ call_stack = <<>>
        /\ op_calls = <<>>
        /\ events = <<>>
        /\ dispatch_in = NoDispatchIn
        /\ dispatch_out = NoDispatch
        /\ nevents = 0
        /\ WalkIdle

Event ==
    /\ session = "entered"
    /\ nevents < MaxEvents
    /\ nevents' = nevents + 1
    /\ UNCHANGED <<parserVars, lines, hist, rank, self, hooks, session, walkVars>>

\* The runtime calls a module: its forward pre hooks run.
ForwardCall ==
    /\ Event
    /\ \E m \in Modules :
        /\ Hook' = FireHooks(Hook, hooks, "forward_pre", m, self.print_module_info)
        /\ call_stack' = Append(call_stack, <<"forward", m>>)
    /\ UNCHANGED <<op_calls, events, dispatch_in, dispatch_out>>

\* The module called last returns: its forward hooks run.
ForwardReturn ==
    /\ Event
    /\ call_stack # <<>>
    /\ call_stack[Len(call_stack)][1] = "forward"
    /\ Hook' = FireHooks(Hook, hooks, "forward", call_stack[Len(call_stack)][2],
                         self.print_module_info)
    /\ call_stack' = Front(call_stack)
    /\ UNCHANGED <<op_calls, events, dispatch_in, dispatch_out>>

\* The backward pass enters a module: its full backward pre hooks run.
BackwardCall ==
    /\ Event
    /\ \E m \in Modules :
        /\ Hook' = FireHooks(Hook, hooks, "backward_pre", m, self.print_module_info)
        /\ call_stack' = Append(call_stack, <<"backward", m>>)
    /\ UNCHANGED <<op_calls, events, dispatch_in, dispatch_out>>

\* The backward pass leaves the module entered last: its full backward hooks run.
BackwardReturn ==
    /\ Event
    /\ call_stack # <<>>
    /\ call_stack[Len(call_stack)][1] = "backward"
    /\ Hook' = FireHooks(Hook, hooks, "backward", call_stack[Len(call_stack)][2],
                         self.print_module_info)
    /\ call_stack' = Front(call_stack)
    /\ UNCHANGED <<op_calls, events, dispatch_in, dispatch_out>>

\* __torch_dispatch__(op, types, args, kwargs).  An exception leaves the
\* module calls in progress without their hooks running.
Dispatch ==
    /\ Event
    /\ \E op \in Ops, kwargs \in KwargsArgs, outcome \in Outcomes,
          durs \in KernelDurations, inner \in InnerOps :
        \* an operation that dispatches operations runs no kernel of its own
        /\ (inner = <<>> \/ durs = <<>>)
        /\ dispatch_in' = [op |-> op, args |-> <<"x">>, kwargs |-> kwargs]
        /\ op_calls' = [i \in DOMAIN DispatchCalls(op, <<"x">>, kwargs) |->
                           [call |-> DispatchCalls(op, <<"x">>, kwargs)[i],
                            outcome |-> outcome]]
        /\ dispatch_out' = DispatchResult(outcome)
        /\ events' = DispatchEvents(op, inner, outcome, self.print_module_info)
        /\ Hook' = DispatchHook(Hook, op, inner, outcome, durs,
                                self.print_module_info)
        /\ call_stack' = IF outcome.kind = "raise" THEN <<>> ELSE call_stack

\* The training loop logs its iteration line, between the module calls.
IterationLine ==
    /\ Event
    /\ call_stack = <<>>
    /\ Hook' = TrainingLogLine(Hook)
    /\ UNCHANGED <<call_stack, op_calls, events, dispatch_in, dispatch_out>>

\* __exit__
SessionExit ==
    /\ session = "entered"
    /\ session' = "exited"
    /\ Hook' = ExitHook(Hook)
    /\ UNCHANGED <<parserVars, lines, hist, rank, self, hooks, call_stack,
                   op_calls, events, dispatch_in, dispatch_out, nevents, walkVars>>

\* parse_one_log on the session's log, line by line
ParseLine ==
    /\ session = "exited"
    /\ nread < Len(Hook.log)
    /\ Feed(Hook.log[nread + 1])
    /\ UNCHANGED <<tracerVars, lines>>

ParseEnd ==
    /\ session = "exited"
    /\ nread = Len(Hook.log)
    /\ EndOfInput
    /\ UNCHANGED <<tracerVars, lines>>

InitSession ==
    /\ InitParser
    /\ InitTracer
    /\ lines = <<>>

NextSession ==
    \/ ForwardCall \/ ForwardReturn \/ BackwardCall \/ BackwardReturn
    \/ Dispatch \/ IterationLine \/ SessionExit \/ ParseLine \/ ParseEnd

SpecSession == InitSession /\ [][NextSession]_vars

----------------------------------------------------------------------------
(* Spec: the parser over every log of at most MaxLines lines of Lines *)

Init ==
    /\ InitParser
    /\ TracerIdle
    /\ lines = <<>>

ReadLine ==
    /\ nread < MaxLines
    /\ \E l \in Lines : Feed(l)
    /\ UNCHANGED <<tracerVars, lines>>

EndOfFile ==
    /\ EndOfInput
    /\ UNCHANGED <<tracerVars, lines>>

Next == ReadLine \/ EndOfFile

Spec == Init /\ [][Next]_vars

(* SpecScenario: the parser over every log of at most MaxScenarioLines     *)
(* lines of ScenarioLines, the lines read being kept in lines.             *)

ReadScenarioLine ==
    /\ nread < MaxScenarioLines
    /\ \E l \in ScenarioLines : Feed(l) /\ lines' = Append(lines, l)
    /\ UNCHANGED tracerVars

NextScenario == ReadScenarioLine \/ EndOfFile

SpecScenario == Init /\ [][NextScenario]_vars

(* SpecWalk: get_named_modules on every module tree of at most MaxModules  *)
(* modules.  Module 1 is the root; the children of a module have greater   *)
(* numbers, so a module can be the child of several, and no module is its  *)
(* own descendant; the children of one module are distinct and their names *)
(* are distinct or empty.                                                   *)

ChildNames == { "", "a" }

Prefixes == { <<>>, <<"model">> }

ChildPairs(m) == ChildNames \X ((m + 1)..MaxModules)

ChildLists(m) ==
    {<<>>} \cup { <<c>> : c \in ChildPairs(m) }
           \cup { cd \in ChildPairs(m) \X ChildPairs(m) :
                      /\ cd[1][2] # cd[2][2]
                      /\ (cd[1][1] # cd[2][1] \/ cd[1][1] = "") }

RECURSIVE ModuleTreesFrom(_)
ModuleTreesFrom(m) ==
    IF m > MaxModules THEN { <<>> }
    ELSE { (m :> c) @@ t : c \in ChildLists(m), t \in ModuleTreesFrom(m + 1) }

ModuleTrees == ModuleTreesFrom(1)

\* get_named_modules(module, prefix) has run up to its while loop
InitWalk ==
    /\ InitParser
    /\ NoSession
    /\ lines = <<>>
    /\ module_tree \in ModuleTrees
    /\ \E prefix \in Prefixes : stack = WalkSeed(1, prefix)
    /\ acc_index = 0
    /\ wpc = "walking"

\* one pass of the while loop
WalkStep ==
    /\ wpc = "walking"
    /\ acc_index < Len(stack)
    /\ stack' = WalkIteration(module_tree, stack, acc_index)
    /\ acc_index' = acc_index + 1
    /\ UNCHANGED <<parserVars, lines, hist, rank, self, Hook, hooks, session,
                   call_stack, op_calls, events, dispatch_in, dispatch_out, nevents,
                   module_tree, wpc>>

\* return stack
WalkReturn ==
    /\ wpc = "walking"
    /\ acc_index >= Len(stack)
    /\ wpc' = "returned"
    /\ UNCHANGED <<parserVars, lines, hist, rank, self, Hook, hooks, session,
                   call_stack, op_calls, events, dispatch_in, dispatch_out, nevents,
                   module_tree, stack, acc_index>>

NextWalk == WalkStep \/ WalkReturn

\* the loop is not held up: nothing else runs
SpecWalk == InitWalk /\ [][NextWalk]_vars /\ WF_vars(NextWalk)

----------------------------------------------------------------------------
(* Properties of parse_one_log *)

Returned == pc = "returned"

RECURSIVE SumOcc(_, _)
\* the sum of the closed occurrences of operation name in occ
SumOcc(occ, name) ==
    IF occ = <<>> THEN 0
    ELSE (IF Head(occ)[1] = name THEN Head(occ)[2] ELSE 0) + SumOcc(Tail(occ), name)

OccNames(occ) == { occ[i][1] : i \in DOMAIN occ }

OccCount(occ, name) == Cardinality({ i \in DOMAIN occ : occ[i][1] = name })

\* C1, as stated: the iteration total returned is the sum of the values of
\* all DURATION lines between the opening marker and the closing marker (or
\* the end of input), an operation being open or not.
C1_TotalIsSumOfAllDurations ==
    Returned => total_iteration_time = hist.durAll

\* C1, amended: the iteration total returned is the sum of the values of the
\* DURATION lines of the window that are read while an operation is open;
\* a DURATION line read with no operation open adds nothing.
C1_TotalIsSumOfOpenDurations ==
    Returned => total_iteration_time = hist.durOpen

\* a parse that returned after samples inside and outside an operation
C1_Witness ==
    /\ Returned
    /\ hist.durOpen > 0
    /\ hist.durAll > hist.durOpen

\* C2: after a successful parse total_time_dict has exactly the names of the
\* operations opened and closed in the window, and maps each to the sum of
\* the duration sums of its occurrences, whatever lay between them.
C2_AggregateAdditivity ==
    Returned =>
        /\ DOMAIN total_time_dict = OccNames(hist.occ)
        /\ \A name \in OccNames(hist.occ) :
               total_time_dict[name] = SumOcc(hist.occ, name)

\* a parse that returned with an operation closed twice, with samples in
\* both occurrences, and a module event in the window
C2_Witness ==
    /\ Returned
    /\ \E name \in OccNames(hist.occ) :
           /\ OccCount(hist.occ, name) >= 2
           /\ \A i \in DOMAIN hist.occ : hist.occ[i][2] > 0
    /\ hist.nBegin + hist.nEnd > 0

\* C3: the three views carry the results: view 1 has the rows of table_data
\* in order, view 2 has one row per key of total_time_dict with that
\* operation's total, view 3 has the iteration total.
C3_ViewsCarryResults ==
    Returned =>
        /\ Len(table) = Len(table_data)
        /\ \A i \in DOMAIN table_data :
               table[i] = <<table_data[i].Module, table_data[i].Name,
                            table_data[i].TotalTime, table_data[i].ModuleTotalTime>>
        /\ Len(table2) = Cardinality(DOMAIN total_time_dict)
        /\ \A name \in DOMAIN total_time_dict :
               \E i \in DOMAIN table2 :
                   table2[i][1] = name /\ table2[i][2] = Num(total_time_dict[name])
        /\ table3 = << <<Num(total_iteration_time)>> >>

NestingErrors == { "IndexError", "not find the module name" }

\* C4: in the window, a module END line whose name is not the name on top
\* of module_list (or read with module_list empty) raises at that line:
\* nothing is returned, and once raised nothing is processed any more.
C4_FatalOnMismatch ==
    [][ /\ ( /\ pc = "loop"
             /\ iteration_begin
             /\ nread' = nread + 1
             /\ ~IsIterationMarker(line')
             /\ IsModuleEnd(line')
             /\ (module_list = <<>> \/ NameOf(line') # module_list[Len(module_list)]) )
           => ( /\ pc' = "raised"
                /\ error' \in NestingErrors
                /\ table' = <<>> /\ table2' = <<>> /\ table3' = <<>> )
        /\ pc = "raised" => UNCHANGED vars ]_vars

\* the parse raised at an END line that names another module than the open one
C4_Witness ==
    /\ pc = "raised"
    /\ error = "not find the module name"
    /\ IsModuleEnd(line)
    /\ module_list # <<>>
    /\ NameOf(line) # module_list[Len(module_list)]

\* C5, as stated: a parse that returns has processed as many module BEGIN
\* lines as module END lines, module_list is the names of the BEGIN lines
\* not yet closed, and every pop removes the name its END line gives.
C5_BeginsEqualEnds ==
    /\ Returned => hist.nBegin = hist.nEnd
    /\ module_list = hist.open
    /\ \A p \in hist.popped : p[1] = p[2]

\* C5, amended: a parse that returns has processed as many module BEGIN
\* lines as module END lines plus the frames still open at the return (a
\* trace that ends with frames open is accepted); module_list is the names
\* of the BEGIN lines not yet closed, and every pop removes the name its END
\* line gives.
C5_BeginsEqualEndsPlusOpen ==
    /\ Returned => hist.nBegin = hist.nEnd + Len(module_list)
    /\ module_list = hist.open
    /\ \A p \in hist.popped : p[1] = p[2]

\* a parse that returned after a pop, with a frame still open
C5_Witness ==
    /\ Returned
    /\ hist.nEnd >= 1
    /\ Len(module_list) >= 1

----------------------------------------------------------------------------
(* The documented scenarios (SpecScenario) *)

ScenarioA ==
    << MarkerLine, BeginForwardLine(<<"net">>), DurationLine("1.5"),
       EndForwardLine(<<"net">>), MarkerLine >>

ScenarioB ==
    << IterLearnLine, StartSymbolLine(<<"add">>), DurationLine("2.0"),
       DurationLine("3.0"), EndSymbolLine(<<"add">>) >>

ScenarioBMarked ==
    << MarkerLine, StartSymbolLine(<<"add">>), DurationLine("2.0"),
       DurationLine("3.0"), EndSymbolLine(<<"add">>) >>

\* a name without the blank that follows the colon
RECURSIVE LStrip(_)
LStrip(s) == IF s # <<>> /\ Head(s) = " " THEN LStrip(Tail(s)) ELSE s

IsLeafRow(r) == r.ModuleTotalTime = Blank

LeafRows(td) == SelectSeq(td, IsLeafRow)

\* C6, as stated: scenario A yields exactly one row, a module summary row
\* with module total 1.5, an empty aggregate table and iteration total 1.5.
C6_ScenarioA_OrphanCounted ==
    (lines = ScenarioA /\ Returned) =>
        /\ table_data = << ModuleRow(15) >>
        /\ DOMAIN total_time_dict = {}
        /\ total_iteration_time = 15

\* C6, amended: scenario A yields exactly one row, a module summary row
\* with module total 0, an empty aggregate table and iteration total 0: a
\* duration sample read with no operation open is ignored.  In general, as
\* long as no operation was opened the iteration total and the module
\* accumulator stay 0 and every row is a module summary row of total 0.
C6_ScenarioA_OrphanIgnored ==
    /\ (lines = ScenarioA /\ Returned) =>
           /\ table_data = << ModuleRow(0) >>
           /\ table = << <<Blank, Blank, Blank, Num(0)>> >>
           /\ DOMAIN total_time_dict = {}
           /\ total_iteration_time = 0
           /\ table3 = << <<Num(0)>> >>
    /\ (hist.cur = <<>> /\ hist.occ = <<>>) =>
           /\ total_iteration_time = 0
           /\ module_total_kernel_consumed = 0
           /\ \A i \in DOMAIN table_data : table_data[i] = ModuleRow(0)

\* scenario A was parsed to its end
C6_Witness == lines = ScenarioA /\ Returned

\* C7, as stated: the parse of scenario B, whose first line is
\* "iter learn loss", succeeds with exactly one leaf row of empty module,
\* name add and total 5.0, aggregate table {add: 5.0}, iteration total 5.0.
C7_ScenarioB_AsWritten ==
    (lines = ScenarioB /\ pc # "loop") =>
        /\ Returned
        /\ Len(table_data) = 1
        /\ IsLeafRow(table_data[1])
        /\ table_data[1].Module = Blank
        /\ LStrip(table_data[1].Name) = <<"add">>
        /\ table_data[1].TotalTime = Num(50)
        /\ { LStrip(k) : k \in DOMAIN total_time_dict } = { <<"add">> }
        /\ \A k \in DOMAIN total_time_dict : total_time_dict[k] = 50
        /\ total_iteration_time = 50

\* C7, amended: with a first line that holds "iteration", "learning" and
\* "loss" the parse of scenario B succeeds with exactly one leaf row of
\* empty module, name " add" (the text after the colon) and total 5.0,
\* aggregate table {" add": 5.0} and iteration total 5.0; with the first
\* line "iter learn loss" as written the window never opens and the parse
\* returns no row, an empty aggregate table and total 0.  In general an
\* operation closed outside any module frame gets a leaf row with an empty
\* module and the sum of the samples between its START and END.
C7_ScenarioB_WithMarker ==
    /\ lines = ScenarioBMarked =>
           /\ pc # "raised"
           /\ Returned =>
                  /\ table_data = << LeafRow(Blank, <<" ", "add">>, 50) >>
                  /\ total_time_dict = (<<" ", "add">> :> 50)
                  /\ total_iteration_time = 50
    /\ lines = ScenarioB =>
           /\ pc # "raised"
           /\ table_data = <<>>
           /\ DOMAIN total_time_dict = {}
           /\ total_iteration_time = 0
    /\ Len(LeafRows(table_data)) = Len(hist.occ)
    /\ \A i \in DOMAIN hist.occ :
           hist.occ[i][3] = <<>> =>
               LeafRows(table_data)[i] = LeafRow(Blank, hist.occ[i][1], hist.occ[i][2])

\* scenario B with a marker line was parsed to the end of its input
C7_Witness == lines = ScenarioBMarked /\ Returned

----------------------------------------------------------------------------
(* Properties of the Tracer (SpecSession) *)

\* C8: __torch_dispatch__ calls the original operation exactly once, with
\* the arguments it was given (no kwargs given is an empty kwargs), and its
\* caller gets what the operation did: its return value, or its exception.
C8_DispatchPassThrough ==
    dispatch_out # NoDispatch =>
        /\ Len(op_calls) = 1
        /\ op_calls[1].call.op = dispatch_in.op
        /\ op_calls[1].call.args = dispatch_in.args
        /\ op_calls[1].call.kwargs =
               (IF dispatch_in.kwargs = None
                THEN [kind |-> "dict", value |-> <<>>] ELSE dispatch_in.kwargs)
        /\ dispatch_out = op_calls[1].outcome

\* a dispatch whose operation failed
C8_Witness ==
    /\ dispatch_out.kind = "raise"
    /\ Len(op_calls) = 1
    /\ op_calls[1].outcome.kind = "raise"

BackwardEntryLines ==
    { HookLog(hooks[i]) \o <<NL>> : i \in { j \in DOMAIN hooks : hooks[j].kind = "backward_pre" } }

\* C9: with verbose logging and backward profiling on, a line emitted on
\* backward entry is taken by the parser for a module BEGIN (read in the
\* window, it leaves its name on top of module_list), and the session's
\* log, whose hooks ran well nested, parses without a nesting error.
C9_BackwardTagsAgree ==
    (session = "exited" /\ self.profiling_backward /\ self.print_module_info) =>
        /\ ~(pc = "raised" /\ error \in NestingErrors)
        /\ (pc = "loop" /\ iteration_begin /\ line \in BackwardEntryLines) =>
               (module_list # <<>> /\ module_list[Len(module_list)] = NameOf(line))

----------------------------------------------------------------------------
(* More properties of parse_one_log (Spec) *)

IsModuleSummaryRow(r) == r.ModuleTotalTime # Blank

\* C11: each sample read with an operation open adds its own value to the
\* module accumulator, so that the accumulator is the sum of the samples
\* attributed since the last module BEGIN or END line, and each module
\* summary row holds that sum.
C11_ModuleRowIsSumOfSamples ==
    pc # "raised" =>
        /\ module_total_kernel_consumed = hist.since
        /\ Len(table_data) = Len(hist.rows)
        /\ \A i \in DOMAIN table_data :
               IsModuleSummaryRow(table_data[i]) => table_data[i] = hist.rows[i]

\* C12, as stated: an END_SYMBOL line read with an operation open is
\* accepted (the parse goes on and the leaf row is appended) iff the END
\* line's name is a substring of the open operation's name; otherwise the
\* parse raises and no row is appended.
C12_EndNameWithinOpenName ==
    [][ ( /\ pc = "loop"
          /\ iteration_begin
          /\ collecting
          /\ nread' = nread + 1
          /\ IsEndSymbol(line') )
        => IF Contains(op_name, NameOf(line'))
           THEN /\ pc' = "loop"
                /\ Len(table_data') = Len(table_data) + 1
                /\ table_data'[Len(table_data')].Name = op_name
           ELSE /\ pc' = "raised"
                /\ table_data' = table_data ]_vars

\* C12, amended: an END_SYMBOL line read with an operation open is accepted
\* (the parse goes on and the leaf row is appended) iff the open operation's
\* name is a substring of, or equal to, the END line's name; otherwise the
\* parse raises the symbol mismatch and no row is appended.
C12_OpenNameWithinEndName ==
    [][ ( /\ pc = "loop"
          /\ iteration_begin
          /\ collecting
          /\ nread' = nread + 1
          /\ IsEndSymbol(line') )
        => IF Contains(NameOf(line'), op_name)
           THEN /\ pc' = "loop"
                /\ ~collecting'
                /\ Len(table_data') = Len(table_data) + 1
                /\ table_data'[Len(table_data')].Name = op_name
           ELSE /\ pc' = "raised"
                /\ error' = "end symbol name is not equal to start symbol name"
                /\ table_data' = table_data
                /\ table' = <<>> /\ table2' = <<>> /\ table3' = <<>> ]_vars

\* an END_SYMBOL line closed an operation whose name is a proper part of
\* the END line's name
C12_Witness ==
    /\ pc = "loop"
    /\ IsEndSymbol(line)
    /\ ~collecting
    /\ table_data # <<>>
    /\ IsLeafRow(table_data[Len(table_data)])
    /\ table_data[Len(table_data)].Name # NameOf(line)
    /\ Contains(NameOf(line), table_data[Len(table_data)].Name)

\* a line that holds the three words of the iteration line
HasAllThree(l) ==
    /\ Contains(l, <<"iteration">>)
    /\ Contains(l, <<"learning">>)
    /\ Contains(l, <<"loss">>)

MarkerIndexes(ls) == { i \in DOMAIN ls : HasAllThree(ls[i]) }

MinOf(S) == CHOOSE i \in S : \A j \in S : i <= j

\* the lines strictly between the first line of ls that holds the three
\* words and the second one, or the end of ls
WindowLines(ls) ==
    LET mk == MarkerIndexes(ls)
    IN  IF mk = {} THEN <<>>
        ELSE LET first == MinOf(mk)
                 rest  == mk \ {first}
             IN  SubSeq(ls, first + 1, IF rest = {} THEN Len(ls) ELSE MinOf(rest) - 1)

\* the history of a sequence of lines
RECURSIVE Replay(_, _)
Replay(h, ls) == IF ls = <<>> THEN h ELSE Replay(HistAfter(h, Head(ls)), Tail(ls))

\* C13: the lines before the first line holding "iteration", "learning" and
\* "loss" are ignored (nothing is accumulated, nothing raises); that line
\* opens the window; the second such line ends the processing at once, with
\* a normal return; the end of input inside the window is a normal return
\* too; and what the parse accumulated and returns is determined by the
\* lines strictly between the two (or the end of input) alone.
C13_IterationWindow ==
    LET mk == MarkerIndexes(lines)
        w  == Replay(HistInit, WindowLines(lines))
    IN  /\ iteration_begin <=> mk # {}
        /\ mk = {} =>
               /\ pc # "raised"
               /\ table_data = <<>>
               /\ DOMAIN total_time_dict = {}
               /\ total_iteration_time = 0
               /\ module_list = <<>>
               /\ module_total_kernel_consumed = 0
               /\ ~collecting
        /\ Cardinality(mk) <= 2
        /\ Cardinality(mk) = 2 => (Returned /\ Len(lines) \in mk)
        /\ Returned => error = ""
        /\ pc # "raised" =>
               /\ hist = w
               /\ total_iteration_time = w.durOpen
               /\ module_list = w.open
               /\ Len(table_data) = Len(w.rows)
               /\ LeafRows(table_data) = LeafRows(w.rows)
               /\ DOMAIN total_time_dict = OccNames(w.occ)
        /\ Returned =>
               /\ table3 = << <<Num(w.durOpen)>> >>
               /\ Len(table) = Len(w.rows)

\* a parse that skipped a DURATION line before the window, read an
\* operation in the window and returned at the second marker
C13_Witness ==
    /\ Returned
    /\ Len(lines) = MaxScenarioLines
    /\ IsDuration(lines[1])
    /\ MarkerIndexes(lines) = {2, Len(lines)}
    /\ table_data # <<>>

NumModuleRows(td) == Len(SelectSeq(td, IsModuleSummaryRow))

\* C14: a module BEGIN line appends a module summary row only if
\* module_list is not empty and the accumulator is not zero, then pushes its
\* name and resets the accumulator; a module END line always appends a
\* module summary row, of total zero too, and resets the accumulator, before
\* its name is compared.  So the rows of a parse hold one module summary row
\* for each END line and one for each BEGIN line read with a frame open and
\* samples accumulated.
C14_FlushAsymmetry ==
    /\ [](pc # "raised" =>
              NumModuleRows(table_data) = hist.nEnd + hist.nFlush)
    /\ [][ ( /\ pc = "loop"
             /\ iteration_begin
             /\ nread' = nread + 1
             /\ ~IsIterationMarker(line') )
           => /\ IsModuleBegin(line') =>
                     /\ table_data' =
                            IF Len(module_list) > 0 /\ module_total_kernel_consumed > 0
                            THEN Append(table_data,
                                        ModuleRow(module_total_kernel_consumed))
                            ELSE table_data
                     /\ module_list' = Append(module_list, NameOf(line'))
                     /\ module_total_kernel_consumed' = 0
                     /\ pc' = "loop"
              /\ IsModuleEnd(line') =>
                     /\ table_data' =
                            Append(table_data, ModuleRow(module_total_kernel_consumed))
                     /\ module_total_kernel_consumed' = 0 ]_vars

\* a parse that returned after a BEGIN line that flushed, a BEGIN line that
\* did not, and an END line that wrote a row of total zero
C14_Witness ==
    /\ Returned
    /\ hist.nFlush >= 1
    /\ hist.nBegin > hist.nFlush
    /\ hist.nEnd >= 1
    /\ \E i \in DOMAIN table_data : table_data[i] = ModuleRow(0)

\* C18: at most one operation is open at a time, and a START_SYMBOL line
\* read while an operation is open is an error: the parse raises at that
\* line and does not go on with the earlier operation open.
C18_StartWhileOpenIsError ==
    [][ ( /\ pc = "loop"
          /\ iteration_begin
          /\ collecting
          /\ nread' = nread + 1
          /\ IsStartSymbol(line') )
        => pc' = "raised" ]_vars

RECURSIVE SumDict(_)
SumDict(d) ==
    IF DOMAIN d = {} THEN 0
    ELSE LET k == CHOOSE x \in DOMAIN d : TRUE
         IN  d[k] + SumDict([x \in DOMAIN d \ {k} |-> d[x]])

\* the sum of the totals of the leaf rows
RECURSIVE SumLeafTimes(_)
SumLeafTimes(td) ==
    IF td = <<>> THEN 0
    ELSE (IF IsLeafRow(Head(td)) THEN Head(td).TotalTime[1] ELSE 0)
         + SumLeafTimes(Tail(td))

----------------------------------------------------------------------------
(* More properties of the Tracer (SpecSession) *)

\* the delimiters of phase ph for (name, scope) recorded from index i on
DelimitersFrom(times, i, ph, name, scope) ==
    Cardinality({ j \in i..Len(times) : times[j] = <<ph, name, scope>> })

\* C15: when the session has ended, with no module call left in progress,
\* every B delimiter recorded has its E delimiter for the same label and
\* scope recorded after it, whether the operations dispatched returned or
\* failed.
C15_DelimitersPaired ==
    (session = "exited" /\ call_stack = <<>>) =>
        \A i \in DOMAIN Hook.times :
            Hook.times[i][1] = "B" =>
                DelimitersFrom(Hook.times, i, "E", Hook.times[i][2], Hook.times[i][3])
                    >= DelimitersFrom(Hook.times, i, "B", Hook.times[i][2],
                                      Hook.times[i][3])

\* the records of a dispatch of op that returned, without what happened
\* inside the call
DispatchRecords(op, verbose) ==
    (IF verbose THEN << LogEvent(<<"[START_SYMBOL]", ":", " ", op>>) >> ELSE <<>>)
    \o << TimeEvent("B", <<op>>, <<"aten op">>),
          CallEvent(op),
          TimeEvent("E", <<op>>, <<"aten op">>) >>
    \o (IF verbose THEN << LogEvent(<<"[END_SYMBOL]", ":", " ", op>>) >> ELSE <<>>)

\* C16: a dispatch that returns makes, in this order, the START_SYMBOL log
\* call (verbose only), the B delimiter tagged "aten op", the call of the
\* operation, the E delimiter tagged "aten op", the END_SYMBOL log call
\* (verbose only), all with the operation's name; not verbose, there is no
\* log call and both delimiters are made still.  What the operations
\* dispatched inside the call record lies between the call and the E
\* delimiter of the outer one, and is such a sequence itself.
C16_DispatchEventOrder ==
    dispatch_out.kind = "return" =>
        LET op      == dispatch_in.op
            verbose == self.print_module_info
            n       == Len(events)
            k       == IF verbose THEN 3 ELSE 2          \* index of the call
            head    == SubSeq(events, 1, k)
            tail    == SubSeq(events, n - (k - 2), n)
            inside  == SubSeq(events, k + 1, n - (k - 1))
            outer   == DispatchRecords(op, verbose)
        IN  /\ n >= 2 * k - 1
            /\ events[k].fn = "op"
            /\ head \o tail = outer
            /\ \A i \in DOMAIN inside :
                   /\ inside[i].name # <<op>>
                   /\ inside[i].name # <<"[START_SYMBOL]", ":", " ", op>>
                   /\ inside[i].name # <<"[END_SYMBOL]", ":", " ", op>>
            /\ \/ inside = <<>>
               \/ \E o \in { "aten.mul" } : inside = DispatchRecords(o, verbose)
            /\ ~verbose => \A i \in DOMAIN events : events[i].fn # "record_log"
            /\ Cardinality({ i \in DOMAIN events : events[i].fn = "record_time" })
                   = 2 * Cardinality({ i \in DOMAIN events : events[i].fn = "op" })

\* a verbose dispatch that returned, with an operation dispatched inside it
C16_Witness ==
    /\ dispatch_out.kind = "return"
    /\ self.print_module_info
    /\ Len(events) = 10

----------------------------------------------------------------------------
(* Properties of get_named_modules (SpecWalk) *)

\* the name a child goes by: its own, or the number of unnamed children
\* before it among the children of its parent
AssignedName(children, i) ==
    IF children[i][1] # "" THEN children[i][1]
    ELSE ToString(Cardinality({ j \in 1..(i - 1) : children[j][1] = "" }))

\* the triples of the children of the module of triple t, in their order
TriplesBelow(tree, t) ==
    [i \in 1..Len(tree[t[2]]) |->
        << t[1] \o <<"#", AssignedName(tree[t[2]], i)>>, tree[t[2]][i][2], t[3] + 1 >>]

\* the triples one level below those of level, in the order of level
RECURSIVE NextLevel(_, _)
NextLevel(tree, level) ==
    IF level = <<>> THEN <<>>
    ELSE TriplesBelow(tree, Head(level)) \o NextLevel(tree, Tail(level))

\* level, then the levels below it
RECURSIVE LevelOrder(_, _)
LevelOrder(tree, level) ==
    IF level = <<>> THEN <<>> ELSE level \o LevelOrder(tree, NextLevel(tree, level))

\* the number of paths that lead from module m down to module n
RECURSIVE NumPaths(_, _, _)
NumPaths(tree, m, n) ==
    IF m = n THEN 1
    ELSE LET below == [i \in DOMAIN tree[m] |-> NumPaths(tree, tree[m][i][2], n)]
             sum[i \in 0..Len(below)] == IF i = 0 THEN 0 ELSE sum[i - 1] + below[i]
         IN  sum[Len(below)]

RECURSIVE SumOver(_, _, _)
SumOver(tree, m, S) ==
    IF S = {} THEN 0
    ELSE LET n == CHOOSE x \in S : TRUE
         IN  NumPaths(tree, m, n) + SumOver(tree, m, S \ {n})

\* C17: get_named_modules terminates on every finite tree of modules
\* without cycles, and returns a sequence that starts with the root at depth
\* 0, holds one triple (path, module, depth) for each path from the root
\* down to a module (a module with two parents twice, with two paths), in
\* which a child has its parent's depth + 1 and the path parent path, "#",
\* child name, in which the depths never decrease and a parent comes before
\* its children: the level order.
C17_LevelOrderWalk ==
    /\ <>(wpc = "returned")
    /\ [](wpc # "idle" =>
           /\ acc_index <= Len(stack)
           /\ Len(stack) <= SumOver(module_tree, 1, DOMAIN module_tree)
           /\ stack[1][2] = 1 /\ stack[1][3] = 0
           /\ stack[1][1] \in { <<"Net">>, <<"model">> }
           /\ wpc = "returned" =>
                  /\ acc_index = Len(stack)
                  /\ stack = LevelOrder(module_tree, << stack[1] >>)
                  /\ \A n \in DOMAIN module_tree :
                         Cardinality({ i \in DOMAIN stack : stack[i][2] = n })
                             = NumPaths(module_tree, 1, n)
                  /\ \A i \in DOMAIN stack :
                         i > 1 =>
                             \E k \in 1..(i - 1) :
                                 \E c \in DOMAIN module_tree[stack[k][2]] :
                                     /\ module_tree[stack[k][2]][c][2] = stack[i][2]
                                     /\ stack[i][3] = stack[k][3] + 1
                                     /\ stack[i][1] =
                                            stack[k][1]
                                            \o <<"#", AssignedName(
                                                   module_tree[stack[k][2]], c)>>
                  /\ \A i, j \in DOMAIN stack :
                         /\ i < j => stack[i][3] <= stack[j][3]
                         /\ (i # j /\ stack[i][2] = stack[j][2]) =>
                                stack[i][1] # stack[j][1])

\* the walk returned a module twice, under two parents at different depths,
\* and two unnamed children of one parent
C17_Witness ==
    /\ wpc = "returned"
    /\ \E i, j \in DOMAIN stack :
           /\ i < j
           /\ stack[i][2] = stack[j][2]
           /\ stack[i][3] < stack[j][3]
    /\ \E i \in DOMAIN stack :
           stack[i][1][Len(stack[i][1])] = "1"

====
